---- MODULE Spec2Model ----
(***************************************************************************)
(* The POST /api/price route of backend/routes/price.js: the per-client    *)
(* rate limiter, the model-call slot allocator, the geocode / progressive- *)
(* radius search / model call / parse pipeline, and the responses it       *)
(* writes.  One action is one run of the event loop: the code between two  *)
(* suspension points (an axios call or the 1 s setTimeout).                *)
(***************************************************************************)
EXTENDS Integers, Sequences, FiniteSets, TLC

\* ------------------------------------------------------------ bounds
\* Requests sent in Spec (the whole route, every provider configured or not).
NumRequests == 3
\* Requests sent in SpecLLM (the slot allocator under contention).
NumCallers == 4
\* Requests sent in SpecLLMFair (the slot allocator under fair scheduling).
NumWaiters == 3
\* Requests sent in SpecLimiter (the rate limiter alone).
NumArrivals == 4
\* The clock advances TickMs at a time, MaxTicks times at most.
TickMs == 700
MaxTicks == 3
\* Longest model reply, in tokens.
MaxTextLen == 3

\* ------------------------------------------------- program constants
\* RATE_LIMIT_WINDOW_MS=1400, RATE_LIMIT_MAX_REQUESTS=2 and
\* MAX_CONCURRENT_LLM_CALLS=2 in the environment (defaults 3600000, 60, 5).
WINDOW_MS == 1400
MAX_REQUESTS_PER_WINDOW == 2
MAX_CONCURRENT == 2

\* JavaScript null / undefined, for a number and for a string.
Null == -1
Undefined == "undefined"

ALLOWED_TYPES ==
  {"dog", "cat", "lizard", "rabbit", "bird", "other", "hamster", "fish",
   "amphibian", "snake", "tortoise"}
ALLOWED_SIZES == {"tiny", "small", "medium", "large", "x-large"}
radiiMiles == <<10, 20, 30, 40>>

Max(a, b) == IF a >= b THEN a ELSE b
\* Math.ceil(n / d) for d > 0 (n may be negative).
CeilDiv(n, d) == -((-n) \div d)

AllRequests == 1..Max(Max(NumRequests, NumWaiters), Max(NumCallers, NumArrivals))
Clients == {"10.0.0.1", "10.0.0.2"}

\* ------------------------------------------------------- rate limiter
\* rateLimitMap.get(ip) || { count: 0, windowStart: now }
EntryOf(map, ip, t) ==
  IF ip \in DOMAIN map THEN map[ip] ELSE [count |-> 0, windowStart |-> t]

WindowExpiredStrict(t, entry) == t - entry.windowStart > WINDOW_MS
WindowExpiredEarly(t, entry) == 2 * (t - entry.windowStart) >= WINDOW_MS
WindowExpired(t, entry) == t - entry.windowStart >= WINDOW_MS

\* The entry after this request was counted.
CountedEntry(map, ip, t) ==
  LET entry == EntryOf(map, ip, t)
      fresh == IF WindowExpired(t, entry)
               THEN [count |-> 0, windowStart |-> t]
               ELSE entry
  IN  [fresh EXCEPT !.count = @ + 1]

OverLimitOffByOne(entry) == entry.count > MAX_REQUESTS_PER_WINDOW + 1
OverLimit(entry) == entry.count > MAX_REQUESTS_PER_WINDOW

\* The X-RateLimit-* headers, and Retry-After on a rejection.
RateLimitHeaders(entry, t) ==
  [limit      |-> MAX_REQUESTS_PER_WINDOW,
   remaining  |-> Max(0, MAX_REQUESTS_PER_WINDOW - entry.count),
   reset      |-> CeilDiv(entry.windowStart + WINDOW_MS, 1000),
   retryAfter |-> IF OverLimit(entry)
                  THEN CeilDiv(entry.windowStart + WINDOW_MS - t, 1000)
                  ELSE Null]

\* --------------------------------------------------------- validation
\* A request body: the length of the combined location string, size, type.
Payloads ==
  [locationLen : {0, 1, 2, 200, 201},
   size : ALLOWED_SIZES \cup {"giant"},
   type : {"dog", "tortoise", "dragon"}]

validatePriceInput(payload) ==
  (IF payload.locationLen < 2 THEN {"location is required"}
   ELSE IF payload.locationLen > 200 THEN {"location is too long"} ELSE {})
  \cup (IF payload.size \notin ALLOWED_SIZES THEN {"size must be one of"} ELSE {})
  \cup (IF payload.type \notin ALLOWED_TYPES THEN {"type must be one of"} ELSE {})

\* --------------------------------------------------- model-reply parse
\* A model reply is a sequence of tokens: the two braces, a run of prose
\* that is not JSON ("x"), and two groups of object members:
\*   "g"  "min":50,"max":150,"currency":"USD","confidence":"high","notes":...
\*   "b"  "min":150,"max":50
Tokens == {"{", "}", "x", "g", "b"}
LLMTexts == UNION {[1..n -> Tokens] : n \in 0..MaxTextLen}

EmptyObject ==
  [min |-> Null, max |-> Null, currency |-> Undefined,
   confidence |-> Undefined, notes |-> Undefined]

WithMember(obj, tok) ==
  IF tok = "g"
  THEN [min |-> 50, max |-> 150, currency |-> "USD", confidence |-> "high",
        notes |-> "Based on local market rates"]
  ELSE [obj EXCEPT !.min = 150, !.max = 50]

\* JSON.parse succeeds on text: one object whose members are well formed.
IsJSON(text) ==
  /\ Len(text) >= 2
  /\ text[1] = "{"
  /\ text[Len(text)] = "}"
  /\ \A i \in 2..(Len(text) - 1) : text[i] \in {"g", "b"}

RECURSIVE Members(_, _, _)
Members(text, i, obj) ==
  IF i >= Len(text) THEN obj
  ELSE Members(text, i + 1, WithMember(obj, text[i]))

\* The value of JSON.parse(text) when IsJSON(text).
JSONValue(text) == Members(text, 2, EmptyObject)

\* (text).match(/\{[\s\S]*\}/): greedy, from the first "{" to the last "}".
HasMatch(text) ==
  \E i, j \in 1..Len(text) : i < j /\ text[i] = "{" /\ text[j] = "}"
Match(text) ==
  LET i == CHOOSE a \in 1..Len(text) :
             text[a] = "{" /\ \A c \in 1..(a - 1) : text[c] # "{"
      j == CHOOSE b \in 1..Len(text) :
             text[b] = "}" /\ \A c \in (b + 1)..Len(text) : text[c] # "}"
  IN  SubSeq(text, i, j)

\* The size-keyed fallback estimate.
Heuristic(size) ==
  LET baseMin == IF size = "tiny" \/ size = "small" THEN 30
                 ELSE IF size = "medium" THEN 50 ELSE 80
  IN  [min |-> baseMin, max |-> baseMin + 50, currency |-> "USD",
       confidence |-> "medium", notes |-> "Fallback estimate (LLM parse error)"]

\* Lines 427-445: what the handler makes of the model's reply.  path names the
\* branch taken; "throw" is the JSON.parse of the match raising inside the
\* catch block, which leaves the handler's try.
ParseReply(text, size) ==
  IF IsJSON(text) THEN [path |-> "direct", parsed |-> JSONValue(text)]
  ELSE IF HasMatch(text)
       THEN IF IsJSON(Match(text))
            THEN [path |-> "extracted", parsed |-> JSONValue(Match(text))]
            ELSE [path |-> "throw", parsed |-> EmptyObject]
       ELSE [path |-> "heuristic", parsed |-> Heuristic(size)]

\* ------------------------------------------------------ groomer search
\* The places the search provider knows, with the haversine distance of each
\* from the request coordinate, in metres (10 miles are 16093 m).
PlaceP1 == [place_id |-> "p1", latlng |-> "loc-p1", metres |-> 5000]
PlaceP2 == [place_id |-> "p2", latlng |-> "loc-p2", metres |-> 25000]
\* A town with thirteen groomers, the farthest listed first, and one more that
\* the provider lists twice and without a place_id.
Crowd ==
  [k \in 1..13 |-> [place_id |-> "q" \o ToString(k),
                    latlng |-> "loc-q" \o ToString(k), metres |-> 14000 - 1000 * k]]
PlaceNoId == [place_id |-> "null", latlng |-> "loc-n", metres |-> 3000]
Places ==
  {PlaceP1, PlaceP2, PlaceNoId} \cup {Crowd[k] : k \in 1..13}
\* What one nearby-search query may bring back: resp.data.results, or a failure
\* (a status other than OK / ZERO_RESULTS, a network error, a timeout).
ProviderAnswers ==
  {[ok |-> FALSE, results |-> <<>>]}
  \cup {[ok |-> TRUE, results |-> ps] : ps \in {<<>>, <<PlaceP1>>, <<PlaceP2, PlaceP1>>}}
\* The same, and the query may bring back the whole town.
CrowdAnswers ==
  ProviderAnswers \cup {[ok |-> TRUE, results |-> Crowd \o <<PlaceNoId, PlaceNoId>>]}

\* Lines 175-193: a raw place as a groomer record; no place is left out.
RealGroomer(p) ==
  [place_id |-> p.place_id, latlng |-> p.latlng, distance |-> p.metres,
   source |-> "google-places"]
RECURSIVE MapPlaces(_)
MapPlaces(ps) ==
  IF ps = <<>> THEN <<>> ELSE <<RealGroomer(Head(ps))>> \o MapPlaces(Tail(ps))

\* Lines 165-201: searchRealGroomers once the provider has answered.
searchRealGroomers(answer) ==
  IF answer.ok THEN MapPlaces(answer.results) ELSE <<>>

\* haversineKm of the eight mock offsets from a centre at 30.27 N, in metres.
MockDistance == <<1469, 1836, 1456, 1963, 2275, 2011, 1944, 2628>>
MockLatLng == <<"m1", "m2", "m3", "m4", "m5", "m6", "m7", "m8">>
\* Lines 239-267: the eight synthesized groomers.
MockGroomers ==
  [i \in 1..8 |-> [place_id |-> "null", latlng |-> MockLatLng[i],
                   distance |-> MockDistance[i], source |-> "mock"]]

\* Line 160: a radius in metres.
RadiusMetres(radiusMiles) == (radiusMiles * 160934) \div 100

\* Lines 272-279: the first groomer of each key is kept.
DedupKey(g) == IF g.place_id # "null" THEN g.place_id ELSE g.latlng
DedupByIdOnly(gs, seen) ==
  LET keep(i) == gs[i].place_id = "null"
                 \/ \A j \in 1..(i - 1) : gs[j].place_id # gs[i].place_id
      RECURSIVE pick(_)
      pick(i) == IF i > Len(gs) THEN <<>>
                 ELSE (IF keep(i) THEN <<gs[i]>> ELSE <<>>) \o pick(i + 1)
  IN  pick(1)
RECURSIVE Dedup(_, _)
Dedup(gs, seen) ==
  IF gs = <<>> THEN <<>>
  ELSE IF DedupKey(Head(gs)) \in seen THEN Dedup(Tail(gs), seen)
       ELSE <<Head(gs)>> \o Dedup(Tail(gs), seen \cup {DedupKey(Head(gs))})

\* Line 281: the stable sort by distance.
RECURSIVE Insert(_, _)
Insert(g, sorted) ==
  IF sorted = <<>> THEN <<g>>
  ELSE IF g.distance < Head(sorted).distance THEN <<g>> \o sorted
       ELSE <<Head(sorted)>> \o Insert(g, Tail(sorted))
SortUnsorted(gs) == gs
RECURSIVE SortByDistance(_)
SortByDistance(gs) ==
  IF gs = <<>> THEN <<>>
  ELSE Insert(gs[Len(gs)], SortByDistance(SubSeq(gs, 1, Len(gs) - 1)))

\* Lines 272-286: candidates deduplicated, sorted, and cut to twelve.
Ranked(candidates) ==
  LET unique == SortByDistance(Dedup(candidates, {}))
  IN  SubSeq(unique, 1, IF Len(unique) < 12 THEN Len(unique) ELSE 12)
\* The same for the mock groomers, which are the same for every request.
RankedMock == Ranked(MockGroomers)

FetchResultPadded(allGroomers, radiusUsed) ==
  LET filled == IF Len(allGroomers) < 8 THEN allGroomers \o MockGroomers ELSE allGroomers
      unique == SortByDistance(Dedup(filled, {}))
  IN  [groomers |-> SubSeq(unique, 1, IF Len(unique) < 12 THEN Len(unique) ELSE 12),
       radiusMilesUsed |-> IF Len(allGroomers) = 0 THEN 20 ELSE radiusUsed]
\* Lines 236-286: what fetchNearbyGroomers returns once the radius loop ended
\* with allGroomers and radiusUsed.
FetchResult(allGroomers, radiusUsed) ==
  IF Len(allGroomers) = 0
  THEN [groomers |-> RankedMock, radiusMilesUsed |-> 20]
  ELSE [groomers |-> Ranked(allGroomers), radiusMilesUsed |-> radiusUsed]

\* Lines 220-234, from the top of the iteration for radiiMiles[i] to the next
\* suspension point: the search query ("search"), or, with no search key (the
\* query returns [] at once), the 1 s delay ("delay"); "fetched" when the loop
\* has ended.
LoopTop(i, allGroomers, radiusUsed, googleKey) ==
  [at |-> IF i > Len(radiiMiles) THEN "fetched"
          ELSE IF googleKey THEN "search" ELSE "delay",
   i |-> i, allGroomers |-> allGroomers, radiusUsed |-> radiusUsed]

\* Lines 221-233, after the query for radiiMiles[i] returned groomers.
AfterSearch(i, allGroomers, radiusUsed, groomers) ==
  IF Len(groomers) > 0
  THEN [at |-> IF Len(allGroomers \o groomers) >= 10 THEN "fetched" ELSE "delay",
        i |-> i, allGroomers |-> allGroomers \o groomers,
        radiusUsed |-> radiiMiles[i]]
  ELSE [at |-> "delay", i |-> i, allGroomers |-> allGroomers,
        radiusUsed |-> radiusUsed]

\* ---------------------------------------------------- slot allocator
AcquireGrantsOffByOne(active) == active <= MAX_CONCURRENT
\* Line 49.
AcquireGrants(active) == active < MAX_CONCURRENT

\* acquireLLMSlot by request r: the count and the queue after it, and whether
\* r holds a slot.
acquireLLMSlot(active, queue, r) ==
  IF AcquireGrants(active)
  THEN [active |-> active + 1, queue |-> queue, granted |-> TRUE]
  ELSE [active |-> active, queue |-> Append(queue, r), granted |-> FALSE]

\* The waiter llmQueue.shift() removes, and the queue it leaves.
ShiftLast(queue) ==
  [next |-> queue[Len(queue)], rest |-> SubSeq(queue, 1, Len(queue) - 1)]
Shift(queue) == [next |-> Head(queue), rest |-> Tail(queue)]

releaseLLMSlotNoReincrement(active, queue) ==
  IF Len(queue) > 0
  THEN [active |-> active - 1, queue |-> Shift(queue).rest,
        woken |-> {Shift(queue).next}]
  ELSE [active |-> active - 1, queue |-> queue, woken |-> {}]
releaseLLMSlotNoWake(active, queue) ==
  IF Len(queue) > 0
  THEN [active |-> (active - 1) + 1, queue |-> Shift(queue).rest, woken |-> {}]
  ELSE [active |-> active - 1, queue |-> queue, woken |-> {}]
\* releaseLLMSlot: the count and the queue after it, and the waiters whose
\* promise it resolved.
releaseLLMSlot(active, queue) ==
  IF Len(queue) > 0
  THEN [active |-> (active - 1) + 1, queue |-> Shift(queue).rest,
        woken |-> {Shift(queue).next}]
  ELSE [active |-> active - 1, queue |-> queue, woken |-> {}]

\* --------------------------------------------------------------- state
VARIABLES
  now,             \* Date.now(), in ms
  env,             \* which API keys process.env holds
  rateLimitMap,    \* client identifier -> [count, windowStart]
  activeLLMCalls,  \* slots held
  llmQueue,        \* the requests whose acquire is pending, oldest first
  pc,              \* where each request's handler is suspended
  local,           \* the handler's local variables and the headers set on res
  hist,            \* what each request has done so far (history, not program state)
  sent             \* the response the last step wrote, if it wrote one

vars == <<now, env, rateLimitMap, activeLLMCalls, llmQueue, pc, local, hist, sent>>

NoHeaders == [limit |-> Null, remaining |-> Null, reset |-> Null, retryAfter |-> Null]

NoLocals ==
  [size |-> Undefined, i |-> 0, allGroomers |-> <<>>, radiusUsed |-> Null,
   groomers |-> <<>>, radiusMilesUsed |-> Null, headers |-> NoHeaders]

NoResponse ==
  [status |-> 0, error |-> Undefined, headers |-> NoHeaders,
   groomersCount |-> Null, radiusMilesUsed |-> Null,
   price |-> EmptyObject, groomers |-> <<>>]

\* ip, count, windowStart: the client and its entry as rateLimiter left it for
\* this request; at: when it arrived; rejected: answered 429.  The rest counts
\* the outbound calls made for the request and names the outcomes it met;
\* allGroomers is what the radius loop had accumulated when it ended.
NoHistory ==
  [ip |-> Undefined, count |-> 0, windowStart |-> Null, rejected |-> FALSE,
   geocodeCalls |-> 0, searchCalls |-> 0, llmCalls |-> 0, acquires |-> 0,
   geo |-> "none", realSeen |-> FALSE, waited |-> FALSE,
   llm |-> "none", path |-> "none", size |-> Undefined,
   at |-> Null, allGroomers |-> <<>>]

\* What is kept of a request's history once it is answered.
Answered(h, status) ==
  [NoHistory EXCEPT !.ip = h.ip, !.count = h.count, !.windowStart = h.windowStart,
                    !.at = h.at, !.rejected = (status = 429)]

NoSent == [req |-> 0, res |-> NoResponse, hist |-> NoHistory]

Envs == [geocodioKey : BOOLEAN, googleKey : BOOLEAN, groqKey : BOOLEAN]

InitWith(e) ==
  /\ now = 0
  /\ env = e
  /\ rateLimitMap = <<>>
  /\ activeLLMCalls = 0
  /\ llmQueue = <<>>
  /\ pc = [r \in AllRequests |-> "idle"]
  /\ local = [r \in AllRequests |-> NoLocals]
  /\ hist = [r \in AllRequests |-> NoHistory]
  /\ sent = NoSent

Init == \E e \in Envs : InitWith(e)

\* ----------------------------------------------------------- responses
\* Lines 33: the rejection.
RejectReply(hd) ==
  [NoResponse EXCEPT !.status = 429, !.error = "Rate limit exceeded", !.headers = hd]
\* Line 383.
InvalidReply(hd) ==
  [NoResponse EXCEPT !.status = 400, !.error = "Invalid input", !.headers = hd]

EmptyReplyAsError(hd, radiusMilesUsed) ==
  [NoResponse EXCEPT !.status = 500, !.error = "Pricing service error", !.headers = hd]
\* Lines 393-397.
EmptyReply(hd, radiusMilesUsed) ==
  [NoResponse EXCEPT !.status = 200, !.headers = hd, !.groomersCount = 0,
                     !.radiusMilesUsed = radiusMilesUsed,
                     !.price = [min |-> Null, max |-> Null, currency |-> "USD",
                                confidence |-> "low", notes |-> "No local groomers found"]]

\* Lines 447-451.
PriceReply(loc, parsed) ==
  [NoResponse EXCEPT !.status = 200, !.headers = loc.headers,
                     !.groomersCount = Len(loc.groomers),
                     !.radiusMilesUsed = loc.radiusMilesUsed,
                     !.price = parsed, !.groomers = loc.groomers]

ErrorReplyAsFallback(loc) == PriceReply(loc, Heuristic(loc.size))
\* Lines 452-455.
ErrorReply(loc) ==
  [NoResponse EXCEPT !.status = 500, !.error = "Pricing service error",
                     !.headers = loc.headers]

\* Request r's handler writes response and ends; h is r's history up to here.
Send(r, response, h) ==
  /\ sent' = [req |-> r, res |-> response, hist |-> h]
  /\ hist' = [hist EXCEPT ![r] = Answered(h, response.status)]
  /\ local' = [local EXCEPT ![r] = NoLocals]

\* ------------------------------------------------------------- actions
Tick ==
  /\ now < MaxTicks * TickMs
  /\ now' = now + TickMs
  /\ sent' = NoSent
  /\ UNCHANGED <<env, rateLimitMap, activeLLMCalls, llmQueue, pc, local, hist>>

\* The handler of request r runs on from the radius-loop state nxt to its next
\* suspension point: a search query, the 1 s delay, or, the loop over, lines
\* 236-286 and 389-425, which end in the empty reply or in callLLM's
\* acquireLLMSlot.  loc are r's locals and h its history so far.
RunFrom(r, nxt, loc, h) ==
  IF nxt.at # "fetched"
  THEN /\ pc' = [pc EXCEPT ![r] = nxt.at]
       /\ local' = [local EXCEPT ![r] =
                      [loc EXCEPT !.i = nxt.i, !.allGroomers = nxt.allGroomers,
                                  !.radiusUsed = nxt.radiusUsed]]
       /\ hist' = [hist EXCEPT ![r] =
                     IF nxt.at = "search" THEN [h EXCEPT !.searchCalls = @ + 1] ELSE h]
       /\ sent' = NoSent
       /\ UNCHANGED <<activeLLMCalls, llmQueue>>
  ELSE LET fr == FetchResult(nxt.allGroomers, nxt.radiusUsed)
           a  == acquireLLMSlot(activeLLMCalls, llmQueue, r)
       IN  IF Len(fr.groomers) = 0
           THEN /\ pc' = [pc EXCEPT ![r] = "done"]
                /\ Send(r, EmptyReply(loc.headers, fr.radiusMilesUsed),
                        [h EXCEPT !.allGroomers = nxt.allGroomers])
                /\ UNCHANGED <<activeLLMCalls, llmQueue>>
           ELSE /\ pc' = [pc EXCEPT ![r] = IF a.granted THEN "granted" ELSE "queued"]
                /\ activeLLMCalls' = a.active
                /\ llmQueue' = a.queue
                /\ local' = [local EXCEPT ![r] =
                               [loc EXCEPT !.i = 0, !.allGroomers = <<>>,
                                           !.radiusUsed = Null,
                                           !.groomers = fr.groomers,
                                           !.radiusMilesUsed = fr.radiusMilesUsed]]
                /\ hist' = [hist EXCEPT ![r] =
                              [h EXCEPT !.acquires = @ + 1, !.waited = ~a.granted,
                                        !.allGroomers = nxt.allGroomers]]
                /\ sent' = NoSent

\* What the route does with a counted request: reject it, refuse its body, or
\* run the handler's pipeline (rateLimiter is the first middleware, lines
\* 30-36, then lines 381-384).
GateValidatesFirst(entry, payload) ==
  IF validatePriceInput(payload) # {} THEN "400"
  ELSE IF OverLimit(entry) THEN "429" ELSE "next"
Gate(entry, payload) ==
  IF OverLimit(entry) THEN "429"
  ELSE IF validatePriceInput(payload) # {} THEN "400" ELSE "next"

\* A request arrives from one of ips with one of payloads: rateLimiter, then
\* the handler up to its first suspension point, the geocoding call (lines
\* 11-41, 368-389, 204-211, 102-117).  Requests are numbered as they arrive.
Arrive(r, ips, payloads) ==
  /\ pc[r] = "idle"
  /\ \A q \in 1..(r - 1) : pc[q] # "idle"
  /\ \E ip \in ips, payload \in payloads :
       LET entry == CountedEntry(rateLimitMap, ip, now)
           hd    == RateLimitHeaders(entry, now)
           h0    == [NoHistory EXCEPT !.ip = ip, !.count = entry.count,
                                      !.windowStart = entry.windowStart, !.at = now]
           gate  == Gate(entry, payload)
       IN  /\ rateLimitMap' = [c \in (DOMAIN rateLimitMap) \cup {ip} |->
                                 IF c = ip THEN entry ELSE rateLimitMap[c]]
           /\ UNCHANGED <<now, env, activeLLMCalls, llmQueue>>
           /\ IF gate = "429"
              THEN /\ pc' = [pc EXCEPT ![r] = "done"]
                   /\ Send(r, RejectReply(hd), h0)
              ELSE IF gate = "400"
              THEN /\ pc' = [pc EXCEPT ![r] = "done"]
                   /\ Send(r, InvalidReply(hd), h0)
              ELSE IF ~env.geocodioKey
              THEN \* geocodeLocation throws before any request is made
                   /\ pc' = [pc EXCEPT ![r] = "done"]
                   /\ Send(r, EmptyReply(hd, Null), [h0 EXCEPT !.geo = "fail"])
              ELSE /\ pc' = [pc EXCEPT ![r] = "geocode"]
                   /\ hist' = [hist EXCEPT ![r] =
                                 [h0 EXCEPT !.geocodeCalls = 1, !.size = payload.size]]
                   /\ local' = [local EXCEPT ![r] =
                                  [NoLocals EXCEPT !.size = payload.size, !.headers = hd]]
                   /\ sent' = NoSent

\* A request arrives and a statement of rateLimiter's try block throws: the
\* catch (lines 37-40) logs and calls next(), so the handler runs whatever the
\* limiter had done by then.  The throw is either in the lookup (lines 13-15:
\* nothing counted, no header set) or at the first setHeader (line 26: the
\* request counted, no header set).
FaultPoints == {"lookup", "setHeader"}
ArriveFault(r, ips, payloads) ==
  /\ pc[r] = "idle"
  /\ \A q \in 1..(r - 1) : pc[q] # "idle"
  /\ \E ip \in ips, payload \in payloads, at \in FaultPoints :
       LET entry == CountedEntry(rateLimitMap, ip, now)
           h0    == IF at = "lookup" THEN [NoHistory EXCEPT !.ip = ip, !.at = now]
                    ELSE [NoHistory EXCEPT !.ip = ip, !.count = entry.count,
                                           !.windowStart = entry.windowStart,
                                           !.at = now]
       IN  /\ rateLimitMap' = IF at = "lookup" THEN rateLimitMap
                              ELSE [c \in (DOMAIN rateLimitMap) \cup {ip} |->
                                      IF c = ip THEN entry ELSE rateLimitMap[c]]
           /\ UNCHANGED <<now, env, activeLLMCalls, llmQueue>>
           /\ IF validatePriceInput(payload) # {}
              THEN /\ pc' = [pc EXCEPT ![r] = "done"]
                   /\ Send(r, InvalidReply(NoHeaders), h0)
              ELSE IF ~env.geocodioKey
              THEN /\ pc' = [pc EXCEPT ![r] = "done"]
                   /\ Send(r, EmptyReply(NoHeaders, Null), [h0 EXCEPT !.geo = "fail"])
              ELSE /\ pc' = [pc EXCEPT ![r] = "geocode"]
                   /\ hist' = [hist EXCEPT ![r] =
                                 [h0 EXCEPT !.geocodeCalls = 1, !.size = payload.size]]
                   /\ local' = [local EXCEPT ![r] =
                                  [NoLocals EXCEPT !.size = payload.size]]
                   /\ sent' = NoSent

\* The geocoder answers (lines 117-145, 211-221, 288-292): ok is a first
\* result with a coordinate; anything else makes geocodeLocation throw.
GeocodeResponse(r) ==
  /\ pc[r] = "geocode"
  /\ UNCHANGED <<now, env, rateLimitMap>>
  /\ \E ok \in BOOLEAN :
       IF ok
       THEN RunFrom(r, LoopTop(1, <<>>, Null, env.googleKey), local[r],
                    [hist[r] EXCEPT !.geo = "ok"])
       ELSE /\ pc' = [pc EXCEPT ![r] = "done"]
            /\ Send(r, EmptyReply(local[r].headers, Null), [hist[r] EXCEPT !.geo = "fail"])
            /\ UNCHANGED <<activeLLMCalls, llmQueue>>

\* The search provider answers the query for radiiMiles[i] with one of answers
\* (lines 165-201, 221-233).
SearchReturns(r, answers) ==
  /\ pc[r] = "search"
  /\ UNCHANGED <<now, env, rateLimitMap>>
  /\ \E answer \in answers :
       LET groomers == searchRealGroomers(answer)
       IN  RunFrom(r, AfterSearch(local[r].i, local[r].allGroomers,
                                  local[r].radiusUsed, groomers), local[r],
                   [hist[r] EXCEPT !.realSeen = @ \/ (answer.ok /\ answer.results # <<>>)])

SearchResponse(r) == SearchReturns(r, ProviderAnswers)

DelayDoneRetries(r) ==
  /\ pc[r] = "delay"
  /\ UNCHANGED <<now, env, rateLimitMap>>
  /\ RunFrom(r, LoopTop(IF local[r].allGroomers = <<>> /\ local[r].i = 2
                        THEN 1 ELSE local[r].i + 1,
                        local[r].allGroomers, local[r].radiusUsed, env.googleKey),
             local[r], hist[r])
\* The 1 s delay at the end of an iteration is over (lines 233, 220-221).
DelayDone(r) ==
  /\ pc[r] = "delay"
  /\ UNCHANGED <<now, env, rateLimitMap>>
  /\ RunFrom(r, LoopTop(local[r].i + 1, local[r].allGroomers,
                        local[r].radiusUsed, env.googleKey), local[r], hist[r])

\* callLLM's finally, then the handler's end: the slot is released, the waiter
\* it woke is runnable, and r's response is written.
ReleaseAndSend(r, response, h) ==
  LET rel == releaseLLMSlot(activeLLMCalls, llmQueue)
  IN  /\ activeLLMCalls' = rel.active
      /\ llmQueue' = rel.queue
      /\ pc' = [q \in AllRequests |->
                  IF q = r THEN "done"
                  ELSE IF q \in rel.woken THEN "granted" ELSE pc[q]]
      /\ Send(r, response, h)

\* callLLM resumes past its await with a slot (lines 320-331): without a key it
\* throws, releases in finally, and the handler's catch answers 500; with one
\* it posts to the model.
CallLLMResume(r) ==
  /\ pc[r] = "granted"
  /\ UNCHANGED <<now, env, rateLimitMap>>
  /\ IF env.groqKey
     THEN /\ pc' = [pc EXCEPT ![r] = "posting"]
          /\ hist' = [hist EXCEPT ![r].llmCalls = @ + 1]
          /\ sent' = NoSent
          /\ UNCHANGED <<activeLLMCalls, llmQueue, local>>
     ELSE ReleaseAndSend(r, ErrorReply(local[r]), [hist[r] EXCEPT !.llm = "nokey"])

LLMErrorLeaks(r) ==
  /\ pc[r] = "posting"
  /\ UNCHANGED <<now, env, rateLimitMap, activeLLMCalls, llmQueue>>
  /\ pc' = [pc EXCEPT ![r] = "done"]
  /\ Send(r, ErrorReply(local[r]), [hist[r] EXCEPT !.llm = "error"])
\* The model call fails or times out (lines 360-365, 452-455).
LLMError(r) ==
  /\ pc[r] = "posting"
  /\ UNCHANGED <<now, env, rateLimitMap>>
  /\ ReleaseAndSend(r, ErrorReply(local[r]), [hist[r] EXCEPT !.llm = "error"])

\* Lines 427-455 for every reply the model may give to a request of this size.
ParseTable ==
  [size \in ALLOWED_SIZES |-> {ParseReply(text, size) : text \in LLMTexts}]

\* The model answers with text (lines 357-359, 364, 427-455): the slot is
\* released, the text parsed, the response written.
LLMResponse(r) ==
  /\ pc[r] = "posting"
  /\ UNCHANGED <<now, env, rateLimitMap>>
  /\ \E p \in ParseTable[local[r].size] :
       ReleaseAndSend(r,
                      IF p.path = "throw" THEN ErrorReply(local[r])
                      ELSE PriceReply(local[r], p.parsed),
                      [hist[r] EXCEPT !.llm = "text", !.path = p.path])

\* ------------------------------------------------------ specifications
\* The whole route, every key configured or not.  The clients send a request
\* once the previous one is answered, all within one rate-limit window: the
\* clock, which only rateLimiter reads, runs in SpecLimiter, and requests
\* overlap in SpecLLM.
NoneInFlight == \A q \in AllRequests : pc[q] \in {"idle", "done"}

Post(r) == NoneInFlight /\ Arrive(r, Clients, Payloads)

Next ==
  \E r \in 1..NumRequests :
       \/ Post(r)
       \/ GeocodeResponse(r)
       \/ SearchResponse(r)
       \/ DelayDone(r)
       \/ CallLLMResume(r)
       \/ LLMError(r)
       \/ LLMResponse(r)

Spec == Init /\ [][Next]_vars

\* A valid body.
CallerPayloads == {[locationLen |-> 2, size |-> "medium", type |-> "dog"]}

\* The search: every key configured, requests with a valid body from one
\* client, one after the other, and a provider that may return the whole town.
InitSearch ==
  InitWith([geocodioKey |-> TRUE, googleKey |-> TRUE, groqKey |-> TRUE])

CrowdResponse(r) == SearchReturns(r, CrowdAnswers)

NextSearch ==
  \E r \in 1..NumRequests :
       \/ NoneInFlight /\ Arrive(r, {"10.0.0.1"}, CallerPayloads)
       \/ GeocodeResponse(r)
       \/ CrowdResponse(r)
       \/ DelayDone(r)
       \/ CallLLMResume(r)
       \/ LLMError(r)
       \/ LLMResponse(r)

SpecSearch == InitSearch /\ [][NextSearch]_vars

\* The rate limiter alone: no geocoding key, so every admitted request is
\* answered in the step in which it arrives; requests arrive as the clock runs.
InitLimiter ==
  InitWith([geocodioKey |-> FALSE, googleKey |-> FALSE, groqKey |-> FALSE])

NextLimiter ==
  \/ Tick
  \/ \E r \in 1..NumArrivals : Arrive(r, Clients, Payloads)

SpecLimiter == InitLimiter /\ [][NextLimiter]_vars

\* The rate limiter with faults: as SpecLimiter, and a request may arrive while
\* the limiter throws and fails open.
NextFaulty ==
  \/ Tick
  \/ \E r \in 1..NumArrivals :
       \/ Arrive(r, Clients, Payloads)
       \/ ArriveFault(r, Clients, Payloads)

SpecFaulty == InitLimiter /\ [][NextFaulty]_vars

\* The slot allocator under contention: requests with a valid body, each from
\* a client of its own, arrive while others are in flight; with no search key
\* every one of them reaches callLLM with the eight synthesized groomers.  No
\* step but an arrival reads the clock, which stands still here.
CallerIp(r) == "10.0.1." \o ToString(r)

InitLLM ==
  \E k \in BOOLEAN :
    InitWith([geocodioKey |-> TRUE, googleKey |-> FALSE, groqKey |-> k])

NextLLM ==
  \E r \in 1..NumCallers :
    \/ Arrive(r, {CallerIp(r)}, CallerPayloads)
    \/ GeocodeResponse(r)
    \/ DelayDone(r)
    \/ CallLLMResume(r)
    \/ LLMError(r)
    \/ LLMResponse(r)

SpecLLM == InitLLM /\ [][NextLLM]_vars

\* The same under the scheduling the runtime gives: every outbound call returns
\* or fails within its timeout (10 s, 30 s), the 1 s timer fires, and a resolved
\* promise's continuation runs.  Nothing obliges a client to send a request.
NextLLMFair ==
  \E r \in 1..NumWaiters :
    \/ Arrive(r, {CallerIp(r)}, CallerPayloads)
    \/ GeocodeResponse(r)
    \/ DelayDone(r)
    \/ CallLLMResume(r)
    \/ LLMError(r)
    \/ LLMResponse(r)

FairLLM ==
  \A r \in 1..NumWaiters :
    /\ WF_vars(GeocodeResponse(r))
    /\ WF_vars(DelayDone(r))
    /\ WF_vars(CallLLMResume(r))
    /\ WF_vars(LLMError(r) \/ LLMResponse(r))

SpecLLMFair == InitLLM /\ [][NextLLMFair]_vars /\ FairLLM

\* ---------------------------------------------------------- properties
Holders == {r \in AllRequests : pc[r] \in {"granted", "posting"}}
InFlightCalls == {r \in AllRequests : pc[r] = "posting"}
Responded == sent.req # 0

\* C1: in every reachable state the count of held slots is between 0 and
\* MAX_CONCURRENT, and at most MAX_CONCURRENT model calls are in flight.
C1_SlotBound ==
  /\ activeLLMCalls \in 0..MAX_CONCURRENT
  /\ Cardinality(InFlightCalls) <= MAX_CONCURRENT
  /\ Cardinality(Holders) <= MAX_CONCURRENT

\* Every slot is held, two calls are in flight and a request waits.
C1_Witness ==
  /\ activeLLMCalls = MAX_CONCURRENT
  /\ Cardinality(InFlightCalls) = MAX_CONCURRENT
  /\ llmQueue # <<>>

\* C2: a request starts to wait only when MAX_CONCURRENT slots are held and
\* joins the tail of the queue; a waiter leaves the queue only from its head and
\* with a slot; and no acquire is granted at once while a request waits.
C2_FIFO ==
  [][\A r \in AllRequests :
       /\ (pc[r] # "queued" /\ pc'[r] = "queued")
            => /\ activeLLMCalls = MAX_CONCURRENT
               /\ activeLLMCalls' = MAX_CONCURRENT
               /\ llmQueue' = Append(llmQueue, r)
       /\ (pc[r] = "queued" /\ pc'[r] # "queued")
            => /\ pc'[r] = "granted"
               /\ r = Head(llmQueue)
               /\ llmQueue' = Tail(llmQueue)
       /\ (pc[r] \notin {"queued", "granted"} /\ pc'[r] = "granted")
            => llmQueue = <<>>]_vars

\* A woken waiter has not resumed yet while a call is in flight and another
\* request is queued behind it.
C2_Witness ==
  \E r \in AllRequests :
    /\ pc[r] = "granted"
    /\ hist[r].waited
    /\ Len(llmQueue) = 1
    /\ \E q \in AllRequests : pc[q] = "posting"

\* The requests of r's client counted in r's window, up to r.
Ordinal(r) ==
  Cardinality({q \in 1..r : /\ hist[q].ip = hist[r].ip
                            /\ hist[q].windowStart = hist[r].windowStart})

\* C3: of the requests of one client in one window, exactly the first
\* MAX_REQUESTS_PER_WINDOW are admitted; every later one is answered 429 with
\* Retry-After >= 0 and X-RateLimit-Remaining = 0.
C3_FirstNAdmitted ==
  /\ \A r \in AllRequests :
       pc[r] = "done" => (hist[r].rejected <=> Ordinal(r) > MAX_REQUESTS_PER_WINDOW)
  /\ Responded =>
       /\ (sent.res.status = 429) <=> (Ordinal(sent.req) > MAX_REQUESTS_PER_WINDOW)
       /\ sent.res.status = 429 =>
            /\ sent.res.headers.retryAfter >= 0
            /\ sent.res.headers.remaining = 0

\* The request after the last admitted one of its window is rejected.
C3_Witness ==
  /\ Responded
  /\ sent.res.status = 429
  /\ Ordinal(sent.req) = MAX_REQUESTS_PER_WINDOW + 1
  /\ \E q \in 1..sent.req : hist[q].ip = hist[sent.req].ip /\ ~hist[q].rejected

\* C4: a request that arrives once windowStart + WINDOW_MS has elapsed resets
\* its client's entry to count 1 and window start now, and is admitted; one
\* that arrives earlier keeps the window start and adds one to the count.
C4_WindowReset ==
  [][\A r \in AllRequests :
       (pc[r] = "idle" /\ pc'[r] # "idle" /\ hist'[r].ip \in DOMAIN rateLimitMap)
         => LET ip == hist'[r].ip
                before == rateLimitMap[ip]
                after == rateLimitMap'[ip]
            IN  IF now >= before.windowStart + WINDOW_MS
                THEN /\ after = [count |-> 1, windowStart |-> now]
                     /\ ~(sent'.req = r /\ sent'.res.status = 429)
                ELSE /\ after = [count |-> before.count + 1,
                                 windowStart |-> before.windowStart]]_vars

\* A client rejected in one window is admitted as the first of the next.
C4_Witness ==
  \E r \in AllRequests, q \in AllRequests :
    /\ q < r
    /\ pc[r] = "done"
    /\ hist[q].ip = hist[r].ip
    /\ hist[q].rejected
    /\ hist[r].count = 1
    /\ ~hist[r].rejected
    /\ hist[r].windowStart = hist[q].windowStart + WINDOW_MS

\* C5: a request answered 429 or 400 made no geocoding, search or model call
\* and never asked for a slot; every request is counted by the rate limiter
\* before anything else, so a request refused for its body had been admitted.
C5_ShortCircuit ==
  /\ \A r \in AllRequests : pc[r] # "idle" => hist[r].count >= 1
  /\ (Responded /\ sent.res.status \in {429, 400}) =>
       /\ sent.hist.geocodeCalls = 0
       /\ sent.hist.searchCalls = 0
       /\ sent.hist.llmCalls = 0
       /\ sent.hist.acquires = 0
       /\ sent.hist.geo = "none"
       /\ sent.req \notin {llmQueue[i] : i \in 1..Len(llmQueue)}
       /\ sent.hist.count >= 1
  /\ (Responded /\ sent.res.status = 400) =>
       /\ sent.hist.count <= MAX_REQUESTS_PER_WINDOW
       /\ sent.res.headers.retryAfter = Null

\* A request over the limit is rejected.
C5_Witness ==
  /\ Responded
  /\ sent.res.status = 429
  /\ sent.hist.count > MAX_REQUESTS_PER_WINDOW

\* C6: whenever the model returns text the request is answered 200, and when
\* neither the text nor the brace-delimited substring parses, the price is the
\* size-keyed heuristic.
C6_ParseFailureNeverSurfaced ==
  (Responded /\ sent.hist.llm = "text") =>
    /\ sent.res.status = 200
    /\ sent.hist.path \notin {"direct", "extracted"}
         => sent.res.price = Heuristic(sent.hist.size)

\* C7: when the model call fails (provider error, timeout, missing key) the
\* request is answered 500 "Pricing service error", with no price.
C7_ModelFailureIs500 ==
  (Responded /\ sent.hist.llm \in {"error", "nokey"}) =>
    /\ sent.res.status = 500
    /\ sent.res.error = "Pricing service error"
    /\ sent.res.price = EmptyObject
    /\ sent.hist.geo = "ok"

\* The model call of a request with mock groomers failed.
C7_Witness ==
  /\ Responded
  /\ sent.hist.llm = "error"
  /\ sent.hist.llmCalls = 1
  /\ sent.res.status = 500

\* C8: when geocoding fails the request is answered 200 with no groomers, a
\* null radius, null bounds and confidence low; no search query and no model
\* call is made and no slot is asked for.
C8_GeocodeFailure ==
  (Responded /\ sent.hist.geo = "fail") =>
    /\ sent.res.status = 200
    /\ sent.res.groomersCount = 0
    /\ sent.res.groomers = <<>>
    /\ sent.res.radiusMilesUsed = Null
    /\ sent.res.price.min = Null
    /\ sent.res.price.max = Null
    /\ sent.res.price.confidence = "low"
    /\ sent.hist.searchCalls = 0
    /\ sent.hist.llmCalls = 0
    /\ sent.hist.acquires = 0

\* The geocoder was called and failed.
C8_Witness ==
  /\ Responded
  /\ sent.hist.geo = "fail"
  /\ sent.hist.geocodeCalls = 1
  /\ sent.res.status = 200

Sources(groomers) == {groomers[i].source : i \in 1..Len(groomers)}
ProvenanceOK(groomers, realSeen) ==
  IF realSeen THEN "mock" \notin Sources(groomers)
  ELSE groomers # <<>> /\ Sources(groomers) = {"mock"}

\* C9: the list fetchNearbyGroomers returns after a successful geocoding is
\* non-empty and all mock when no radius yielded a result, and holds no mock
\* entry when some radius did.
C9_Provenance ==
  /\ \A r \in AllRequests :
       pc[r] \in {"queued", "granted", "posting"}
         => ProvenanceOK(local[r].groomers, hist[r].realSeen)
  /\ (Responded /\ sent.hist.geo = "ok" /\ sent.res.status = 200)
       => ProvenanceOK(sent.res.groomers, sent.hist.realSeen)

\* All four radii were queried and none yielded a result.
C9_Witness ==
  \E r \in AllRequests :
    /\ pc[r] = "granted"
    /\ hist[r].searchCalls = Len(radiiMiles)
    /\ ~hist[r].realSeen
    /\ Len(local[r].groomers) = 8

WellFormed(price) ==
  /\ (price.min # Null /\ price.max # Null) => price.min <= price.max
  /\ price.currency # Undefined
  /\ price.confidence \in {"low", "medium", "high"}

\* C10: every 200 response carries a well-formed PriceEstimate: min <= max
\* when both are there, a currency, and a confidence of low, medium or high.
C10_WellFormedEstimate ==
  (Responded /\ sent.res.status = 200) => WellFormed(sent.res.price)

\* C11: every response carries X-RateLimit-Limit, X-RateLimit-Remaining and
\* X-RateLimit-Reset, with Remaining = max(0, limit - count) for the client's
\* counter after the request was counted, also when the limiter failed open.
C11_HeadersOnEveryResponse ==
  Responded =>
    /\ sent.res.headers.limit = MAX_REQUESTS_PER_WINDOW
    /\ sent.res.headers.remaining = Max(0, MAX_REQUESTS_PER_WINDOW - sent.hist.count)
    /\ sent.res.headers.reset # Null
    /\ sent.hist.count >= 1

InCallLLM(r) == pc[r] \in {"queued", "granted", "posting"}
SamePlace(a, b) ==
  \/ a.place_id # "null" /\ a.place_id = b.place_id
  \/ a.place_id = "null" /\ b.place_id = "null" /\ a.latlng = b.latlng
NoDuplicates(gs) ==
  \A i, j \in 1..Len(gs) : i < j => ~SamePlace(gs[i], gs[j])

\* C12: the list fetchNearbyGroomers returns never holds two candidates with
\* the same place_id, nor two without a place_id at the same coordinate.
C12_Deduplicated ==
  /\ \A r \in AllRequests : InCallLLM(r) => NoDuplicates(local[r].groomers)
  /\ (Responded /\ sent.res.status = 200) => NoDuplicates(sent.res.groomers)

\* The radius loop had accumulated a place returned at two radii and a place
\* without a place_id listed twice, and the latter is in the list returned.
C12_Witness ==
  \E r \in AllRequests :
    /\ pc[r] = "granted"
    /\ LET all == hist[r].allGroomers
       IN  /\ \E i, j \in 1..Len(all) :
                i < j /\ all[i].place_id = "p1" /\ all[j].place_id = "p1"
           /\ \E i, j \in 1..Len(all) :
                i < j /\ all[i].place_id = "null" /\ all[j] = all[i]
    /\ \E i \in 1..Len(local[r].groomers) : local[r].groomers[i].place_id = "null"

\* gs is the closest prefix of the candidates all: in order of distance, twelve
\* at most, and no place of all that is left out is closer than one in gs.
ClosestPrefix(gs, all) ==
  /\ \A i \in 1..(Len(gs) - 1) : gs[i].distance <= gs[i + 1].distance
  /\ Len(gs) <= 12
  /\ \A k \in 1..Len(all) :
       (\A i \in 1..Len(gs) : ~SamePlace(all[k], gs[i]))
         => \A i \in 1..Len(gs) : all[k].distance >= gs[i].distance

\* C13: the list returned is ordered by non-decreasing distance, has at most
\* 12 entries, and no candidate left out of it is strictly closer than one in it.
C13_ClosestFirst ==
  /\ \A r \in AllRequests :
       InCallLLM(r) =>
         ClosestPrefix(local[r].groomers,
                       IF hist[r].realSeen THEN hist[r].allGroomers ELSE MockGroomers)
  /\ (Responded /\ sent.res.status = 200 /\ sent.res.groomersCount > 0) =>
       ClosestPrefix(sent.res.groomers,
                     IF sent.hist.realSeen THEN sent.hist.allGroomers ELSE MockGroomers)

\* Of sixteen places found, listed in no order, the twelve closest are returned.
C13_Witness ==
  \E r \in AllRequests :
    /\ pc[r] = "granted"
    /\ Len(local[r].groomers) = 12
    /\ \E k \in 1..Len(hist[r].allGroomers) :
         /\ \A i \in 1..12 : ~SamePlace(hist[r].allGroomers[k], local[r].groomers[i])
         /\ hist[r].allGroomers[k].distance > local[r].groomers[12].distance
    /\ \E k \in 1..(Len(hist[r].allGroomers) - 1) :
         hist[r].allGroomers[k].distance > hist[r].allGroomers[k + 1].distance

\* C14: a query is issued only while fewer than 10 results are accumulated,
\* the k-th for radiiMiles[k]; the loop ends with 10 results or more or after
\* the query for the widest radius; and when real results exist the
\* radiusMilesUsed returned is the radius of the last query issued.
C14_RadiusOfLastQuery ==
  \A r \in AllRequests :
    /\ pc[r] = "search" =>
         /\ Len(local[r].allGroomers) < 10
         /\ local[r].i \in 1..Len(radiiMiles)
         /\ hist[r].searchCalls = local[r].i
    /\ (InCallLLM(r) /\ hist[r].realSeen) =>
         /\ Len(hist[r].allGroomers) >= 10 \/ hist[r].searchCalls = Len(radiiMiles)
         /\ local[r].radiusMilesUsed = radiiMiles[hist[r].searchCalls]

\* C15: the results a query for radiiMiles[i] adds to the accumulated list are
\* no farther from the request coordinate than that radius.
C15_WithinRadius ==
  [][\A r \in AllRequests :
       (pc[r] = "search" /\ pc'[r] # "search") =>
         LET all == IF pc'[r] = "delay" THEN local'[r].allGroomers
                    ELSE hist'[r].allGroomers
         IN  \A k \in (Len(local[r].allGroomers) + 1)..Len(all) :
               all[k].distance <= RadiusMetres(radiiMiles[local[r].i])]_vars

\* C16: releaseLLMSlot with a waiter removes exactly the head of the queue,
\* makes it a holder in the same step and leaves the count as it was; with no
\* waiter it takes one off the count; and in every state a non-empty queue
\* means that MAX_CONCURRENT slots are held.
C16_Handover ==
  /\ [](llmQueue # <<>> => activeLLMCalls = MAX_CONCURRENT)
  /\ [][\A r \in AllRequests :
          (r \in Holders /\ pc'[r] = "done") =>
            IF llmQueue # <<>>
            THEN /\ llmQueue' = Tail(llmQueue)
                 /\ activeLLMCalls' = activeLLMCalls
                 /\ pc'[Head(llmQueue)] = "granted"
                 /\ \A q \in AllRequests \ {r, Head(llmQueue)} : pc'[q] = pc[q]
            ELSE /\ llmQueue' = <<>>
                 /\ activeLLMCalls' = activeLLMCalls - 1
                 /\ \A q \in AllRequests \ {r} : pc'[q] = pc[q]]_vars

\* A request has just released its slot to a waiter while another still waits.
C16_Witness ==
  /\ Responded
  /\ sent.hist.acquires = 1
  /\ llmQueue # <<>>
  /\ activeLLMCalls = MAX_CONCURRENT
  /\ \E q \in AllRequests : pc[q] = "granted" /\ hist[q].waited

\* C17: for each request the geocoder is called once at most and has answered
\* before the first search query; the queries are issued one at a time, the
\* k-th for radiiMiles[k], four at most, and geocoding is not repeated; the
\* model is called once at most, after the search has returned, with one slot.
C17_Sequential ==
  /\ [](\A r \in AllRequests :
          /\ hist[r].geocodeCalls <= 1
          /\ hist[r].searchCalls <= Len(radiiMiles)
          /\ hist[r].llmCalls <= 1
          /\ hist[r].acquires <= 1
          /\ pc[r] = "geocode" =>
               hist[r].geocodeCalls = 1 /\ hist[r].searchCalls = 0 /\ hist[r].acquires = 0
          /\ pc[r] \in {"search", "delay"} =>
               /\ hist[r].geo = "ok"
               /\ hist[r].llmCalls = 0 /\ hist[r].acquires = 0
          /\ pc[r] = "search" => hist[r].searchCalls = local[r].i
          /\ pc[r] = "posting" => hist[r].llmCalls = 1
          /\ InCallLLM(r) => hist[r].geo = "ok" /\ local[r].groomers # <<>>)
  /\ [][\A r \in AllRequests :
          /\ pc[r] # "idle" => hist'[r].geocodeCalls <= hist[r].geocodeCalls
          /\ pc'[r] # "done" =>
               /\ hist'[r].searchCalls \in {hist[r].searchCalls, hist[r].searchCalls + 1}
               /\ hist'[r].searchCalls # hist[r].searchCalls =>
                    /\ pc[r] \in {"geocode", "delay"}
                    /\ pc'[r] = "search"
                    /\ local'[r].i = hist'[r].searchCalls
               /\ hist'[r].llmCalls # hist[r].llmCalls =>
                    pc[r] = "granted" /\ pc'[r] = "posting"]_vars

\* All four radii were queried in turn and the model is being called.
C17_Witness ==
  \E r \in AllRequests :
    /\ pc[r] = "posting"
    /\ hist[r].geocodeCalls = 1
    /\ hist[r].searchCalls = Len(radiiMiles)
    /\ hist[r].realSeen
    /\ hist[r].llmCalls = 1

\* The requests of client ip that arrived in [t, t + WINDOW_MS) and were admitted.
AdmittedIn(ip, t) ==
  {r \in AllRequests : /\ pc[r] = "done"
                       /\ hist[r].ip = ip
                       /\ ~hist[r].rejected
                       /\ hist[r].at >= t
                       /\ hist[r].at < t + WINDOW_MS}
ArrivalTimes == {hist[r].at : r \in {q \in AllRequests : pc[q] = "done"}}
WindowStarts(ip) ==
  {hist[r].windowStart : r \in {q \in AllRequests : pc[q] = "done" /\ hist[q].ip = ip}}

\* C18 as stated: of the requests of one client that arrive in an interval of
\* length WINDOW_MS, wherever it starts, at most MAX_REQUESTS_PER_WINDOW are
\* admitted.  (An interval that admits more can be taken to start at an arrival.)
C18_SlidingWindow ==
  \A ip \in Clients, t \in ArrivalTimes :
    Cardinality(AdmittedIn(ip, t)) <= MAX_REQUESTS_PER_WINDOW

\* C18 as amended: the windows are fixed.  Of the requests of one client that
\* arrive in an interval of length WINDOW_MS that starts where the limiter
\* started a window of that client, at most MAX_REQUESTS_PER_WINDOW are
\* admitted, and they are the requests counted in that window.
C18_FixedWindow ==
  \A ip \in Clients : \A t \in WindowStarts(ip) :
    /\ Cardinality(AdmittedIn(ip, t)) <= MAX_REQUESTS_PER_WINDOW
    /\ \A r \in AdmittedIn(ip, t) : hist[r].windowStart = t

\* A client has filled two windows one after the other.
C18_Witness ==
  \E ip \in Clients : \E t \in WindowStarts(ip) :
    /\ Cardinality(AdmittedIn(ip, t)) = MAX_REQUESTS_PER_WINDOW
    /\ Cardinality(AdmittedIn(ip, t + WINDOW_MS)) = MAX_REQUESTS_PER_WINDOW
    /\ t + WINDOW_MS \in WindowStarts(ip)

Waiting == {llmQueue[i] : i \in 1..Len(llmQueue)}

\* C19: the count of held slots is the number of requests inside callLLM
\* between grant and release, and the queue holds the requests whose acquire is
\* pending, each once; a request acquires once; a request that ends gives up
\* one slot if it held one and none if it did not; and once every request is
\* answered no slot is held and nobody waits.
C19_NoSlotLeak ==
  /\ [](/\ activeLLMCalls = Cardinality(Holders)
        /\ Waiting = {r \in AllRequests : pc[r] = "queued"}
        /\ Cardinality(Waiting) = Len(llmQueue)
        /\ \A r \in AllRequests : hist[r].acquires <= 1
        /\ (\A r \in AllRequests : pc[r] \in {"idle", "done"}) =>
             activeLLMCalls = 0 /\ llmQueue = <<>>)
  /\ [][\A r \in AllRequests :
          (pc[r] # "done" /\ pc'[r] = "done") =>
            IF r \in Holders
            THEN activeLLMCalls' + Len(llmQueue') = activeLLMCalls + Len(llmQueue) - 1
            ELSE activeLLMCalls' = activeLLMCalls /\ llmQueue' = llmQueue]_vars

\* Every caller is answered, the last of them after its model call failed,
\* and it had waited for its slot.
C19_Witness ==
  /\ \A r \in 1..NumCallers : pc[r] = "done"
  /\ Responded
  /\ sent.hist.waited
  /\ sent.hist.llm \in {"error", "nokey"}
  /\ activeLLMCalls = 0

====
